---------------------------- MODULE Spec2Model ----------------------------
(***************************************************************************)
(* Portfolio VaR / ES calculator: the parametric (variance-covariance)     *)
(* calculator of src/src/parametric_method.py, the Monte Carlo simulator   *)
(* of src/src/monte_carlo_method.py and the converter of src/src/utils.py. *)
(*                                                                         *)
(* Numbers.  The program computes in floating point; the model computes    *)
(* exactly, in integers that are numerators over a stated denominator:     *)
(*   weights                      over WeightScale                         *)
(*   asset returns, volatilities,                                          *)
(*   entries of the Cholesky factor over ReturnScale                       *)
(*   covariances                  over ReturnScale^2                       *)
(*   correlations                 over RhoScale                            *)
(*   portfolio daily returns      over DayDen = WeightScale * ReturnScale  *)
(*   a path's value after d days  over DayDen^d                            *)
(*   simulated horizon returns    over DayDen^time_horizon_days            *)
(*   confidence levels, alpha     over PctScale                            *)
(*   normal quantiles, densities, sqrt(horizon) over ZScale                *)
(* A mean (np.mean) is kept as the fraction [num, den].  Square roots,     *)
(* the normal quantile and the normal density are rounded to the grid,     *)
(* as the machine rounds them to its own.                                  *)
(***************************************************************************)
EXTENDS Integers, Sequences, FiniteSets, TLC

\* ------------------------------------------------------------------ bounds
MaxSims == 3          \* num_simulations ranges over 1..MaxSims
MaxHorizon == 2       \* time_horizon_days ranges over 1..MaxHorizon

\* ------------------------------------------------------------------- units
WeightScale == 2
ReturnScale == 20
RhoScale == 5
PctScale == 100
ZScale == 1000
RngModulus == 16

DayDen == WeightScale * ReturnScale

\* ---------------------------------------------------------------- state
VARIABLES
    portfolio_config,               \* the model under analysis (a dict)
    rng,                            \* state of the process-wide np.random
    pc,                             \* where control is
    daily_returns,                  \* arguments of the Monte Carlo call
    daily_vols,
    daily_covariance_matrix,
    L_matrix,                       \* locals of the Monte Carlo call
    i,
    day,
    current_portfolio_value_sim,
    sim_horizon_portfolio_returns,
    var_index,
    result,                         \* what the call returned or raised
    rng_at_call,                    \* history: rng when the call was entered
    recording,                      \* history: are finished calls recorded
    last_param,                     \* history: the last parametric call
    last_mc,                        \* history: the last Monte Carlo call
    day_steps,                      \* history: day-steps the call has taken
    run                             \* run_risk_calculations: position, output

args == <<daily_returns, daily_vols, daily_covariance_matrix>>
locals == <<L_matrix, i, day, current_portfolio_value_sim,
            sim_horizon_portfolio_returns, var_index>>
history == <<recording, last_param, last_mc>>
vars == <<portfolio_config, rng, pc, args, locals, result, rng_at_call, history,
          day_steps, run>>

\* ------------------------------------------------------- numeric operators
Max2(a, b) == IF a >= b THEN a ELSE b
Min2(a, b) == IF a <= b THEN a ELSE b

\* int(x) of Python for x = num / den, den > 0: truncation toward zero.
PyInt(num, den) == IF num >= 0 THEN num \div den ELSE -((-num) \div den)

\* math.floor of num / den, den > 0.
Floor(num, den) == num \div den

\* Mutant of LossValue: the loss is not floored at zero.
LossValueUnfloored(return, portfolio_value) == -return * portfolio_value

\* value = -return * portfolio_value; value = max(0, value)
LossValue(return, portfolio_value) == Max2(0, -return * portfolio_value)

RECURSIVE Pow(_, _)
Pow(b, e) == IF e = 0 THEN 1 ELSE b * Pow(b, e - 1)

RECURSIVE SqrtSearch(_, _, _)
SqrtSearch(x, lo, hi) ==
    IF lo >= hi THEN lo
    ELSE LET mid == (lo + hi + 1) \div 2
         IN  IF mid * mid <= x THEN SqrtSearch(x, mid, hi)
                               ELSE SqrtSearch(x, lo, mid - 1)

\* np.sqrt on the grid: the largest r with r * r <= x (x >= 0).
ISqrt(x) == SqrtSearch(x, 0, Min2(x, 46340))

RECURSIVE SumTo(_, _)
\* f[1] + ... + f[k]
SumTo(f, k) == IF k = 0 THEN 0 ELSE f[k] + SumTo(f, k - 1)

\* np.dot of two vectors of the same length.
Dot(u, v) == SumTo([k \in 1..Len(u) |-> u[k] * v[k]], Len(u))

\* The @ of a matrix and a vector, and of two matrices (tuples of rows).
MatVec(A, v) == [r \in 1..Len(A) |-> Dot(A[r], v)]
MatMul(A, B) ==
    [r \in 1..Len(A) |->
        [c \in 1..Len(B[1]) |->
            SumTo([k \in 1..Len(B) |-> A[r][k] * B[k][c]], Len(B))]]

\* np.diag of a vector.
Diag(v) == [r \in 1..Len(v) |-> [c \in 1..Len(v) |-> IF r = c THEN v[r] ELSE 0]]


\* ------------------------------------------------------------ utils.py
\* Mutant of convert_annual_to_daily: volatilities are scaled linearly, as
\* returns are.
ConvertLinearOnly(annual_value, trading_days, is_volatility) ==
    [k \in 1..Len(annual_value) |-> annual_value[k] \div trading_days]

\* convert_annual_to_daily, element-wise over an array: annual / trading_days
\* for returns, annual / sqrt(trading_days) for volatilities.
convert_annual_to_daily(annual_value, trading_days, is_volatility) ==
    IF is_volatility
    THEN [k \in 1..Len(annual_value) |->
            (annual_value[k] * ZScale) \div ISqrt(trading_days * ZScale * ZScale)]
    ELSE [k \in 1..Len(annual_value) |-> annual_value[k] \div trading_days]

\* --------------------------------------------------- covariance builder
\* Mutant of DailyCovariance: the correlation matrix is scaled on the right
\* only (corr_matrix @ D_daily).
DailyCovarianceRightScaled(vols, corr_matrix) ==
    LET P == MatMul(corr_matrix, Diag(vols))
    IN  [r \in 1..Len(P) |-> [c \in 1..Len(P) |-> P[r][c] \div RhoScale]]

\* D_daily @ corr_matrix @ D_daily with D_daily = np.diag(vols).
DailyCovariance(vols, corr_matrix) ==
    LET D_daily == Diag(vols)
        P       == MatMul(MatMul(D_daily, corr_matrix), D_daily)
    IN  [r \in 1..Len(P) |-> [c \in 1..Len(P) |-> P[r][c] \div RhoScale]]

\* ------------------------------------------------- np.linalg.cholesky
\* Cholesky-Banachiewicz on the lower triangle, as LAPACK potrf does it: the
\* j-th pivot is A[j][j] minus the squares already placed in row j, and the
\* factorization stops with an error at the first pivot that is not positive.
\* Mutant of CholPivot: the squares already placed in the row are not
\* subtracted, so only the diagonal decides.
CholPivotDiagonalOnly(A, j) == A[j][j]

RECURSIVE CholEntry(_, _, _)
RECURSIVE CholPivot(_, _)
CholPivot(A, j) ==
    A[j][j] - SumTo([k \in 1..(j - 1) |-> CholEntry(A, j, k) * CholEntry(A, j, k)], j - 1)
CholEntry(A, r, c) ==
    IF r = c THEN ISqrt(CholPivot(A, c))
    ELSE (A[r][c] - SumTo([k \in 1..(c - 1) |->
                              CholEntry(A, r, k) * CholEntry(A, c, k)], c - 1))
         \div CholEntry(A, c, c)

RECURSIVE CholPivotsPositive(_, _)
CholPivotsPositive(A, j) ==
    IF j = 0 THEN TRUE ELSE CholPivotsPositive(A, j - 1) /\ CholPivot(A, j) > 0

\* The factor L (lower triangular, L L^T = A), or LinAlgError.
Cholesky(A) ==
    IF CholPivotsPositive(A, Len(A))
    THEN [kind |-> "ok",
          L |-> [r \in 1..Len(A) |->
                   [c \in 1..Len(A) |-> IF c <= r THEN CholEntry(A, r, c) ELSE 0]]]
    ELSE [kind |-> "LinAlgError"]

\* ------------------------------------------------------ scipy.stats.norm
PdfScale == 1000000

\* norm.ppf(alpha) for alpha strictly inside (0, 1), over ZScale.
NormPpf(alpha) ==
    CASE alpha = 1  -> -2326
      [] alpha = 5  -> -1645
      [] alpha = 50 -> 0
      [] alpha = 95 -> 1645
      [] alpha = 99 -> 2326

\* norm.pdf(z), over PdfScale.
NormPdf(z) ==
    CASE z = -2326 -> 26652
      [] z = -1645 -> 103136
      [] z = 0     -> 398942
      [] z = 1645  -> 103136
      [] z = 2326  -> 26652

\* ------------------------------------------------------------ np.random
RngStates == 0..(RngModulus - 1)

\* np.random.seed(k) puts the generator in one of these states.
SeedStates == {0, 7}

\* The generator's next state after one variate, and the variate it yields.
NextRng(s) == (5 * s + 3) % RngModulus
Variate(s) == (s % 3) - 1

\* Mutant of RngAfter: a draw of k variates advances the generator once,
\* whatever k is.
RngAfterOneAdvance(s, k) == IF k = 0 THEN s ELSE NextRng(s)

RECURSIVE RngAfter(_, _)
\* The generator's state after k variates were drawn from state s.
RngAfter(s, k) == IF k = 0 THEN s ELSE NextRng(RngAfter(s, k - 1))

\* np.random.normal(0, 1, size=k) from generator state s.
NormalDraws(s, k) == [j \in 1..k |-> Variate(RngAfter(s, j - 1))]

\* Mutant of DrawSource: every draw comes from a generator freshly seeded
\* with an unpredictable seed, whatever the caller seeded.
FreshlySeeded(s) == SeedStates

\* Mutant of DrawSource: the generator is re-seeded with a fixed seed before
\* every draw.
ReseededSource(s) == {0}

\* The generator np.random.normal reads: the process-wide one, in the state
\* the caller left it in.
DrawSource(s) == {s}

\* ------------------------------------------------- parametric_method.py
\* A fraction num / den, den > 0 (the value of np.mean, or a scalar over 1).
\* den = 0 is the nan a mean of nothing gives: equal to nothing, below nothing.
Frac(n, d) == [num |-> n, den |-> d]
FracEq(a, b) == a.den # 0 /\ b.den # 0 /\ a.num * b.den = b.num * a.den
FracLe(a, b) == a.den # 0 /\ b.den # 0 /\ a.num * b.den <= b.num * a.den

\* The denominator of the four outputs of calculate_parametric_var_es.
ParamDen == DayDen * ZScale * ZScale

\* Mutant of TailRatio: the density is not divided by alpha.
TailRatioNoAlpha(z_score, alpha) == NormPdf(z_score) \div (PdfScale \div ZScale)

\* phi(z_alpha) / alpha, over ZScale.
TailRatio(z_score, alpha) ==
    (NormPdf(z_score) * PctScale) \div (alpha * (PdfScale \div ZScale))

\* z_score = scipy.stats.norm.ppf(alpha)
ZScore(alpha) == NormPpf(alpha)

\* Mutant of PortfolioDailyVariance: the variance is estimated from a draw of
\* the process-wide generator instead of the closed form.
PortfolioDailyVarianceSampled(weights, cov) ==
    LET v == Dot(weights, MatVec(cov, weights))
    IN  IF v < 0 THEN 0 ELSE v * (2 + Variate(rng))

\* Mutant of PortfolioDailyVariance: a variance that is not positive is
\* replaced by the smallest positive one.
PortfolioDailyVarianceFloored(weights, cov) ==
    LET v == Dot(weights, MatVec(cov, weights))
    IN  IF v <= 0 THEN 1 ELSE v

\* Mutant of PortfolioDailyVariance: a negative variance is replaced by its
\* magnitude.
PortfolioDailyVarianceAbs(weights, cov) ==
    LET v == Dot(weights, MatVec(cov, weights))
    IN  IF v < 0 THEN -v ELSE v

\* w^T Sigma w, with the clamp of a negative variance to zero.
PortfolioDailyVariance(weights, cov) ==
    LET v == Dot(weights, MatVec(cov, weights))
    IN  IF v < 0 THEN 0 ELSE v

\* Mutant of AdjPortfolioVolatility: the volatility is scaled by the horizon
\* itself, as the mean is.
AdjPortfolioVolatilityLinear(portfolio_daily_volatility, time_horizon) ==
    portfolio_daily_volatility * time_horizon * ZScale

\* adj_portfolio_volatility = portfolio_daily_volatility * np.sqrt(time_horizon),
\* over DayDen * ZScale.
AdjPortfolioVolatility(portfolio_daily_volatility, time_horizon) ==
    portfolio_daily_volatility * ISqrt(time_horizon * ZScale * ZScale)

\* calculate_parametric_var_es for a confidence level strictly inside (0, 1).
\* The four outputs are numerators over ParamDen.
calculate_parametric_var_es(cfg) ==
    LET portfolio_value == cfg.portfolio_value
        weights         == cfg.weights
        time_horizon    == cfg.time_horizon_days
        trading_days    == cfg.trading_days_per_year
        alpha           == PctScale - cfg.confidence_level
        p_daily_returns == convert_annual_to_daily(cfg.expected_annual_returns,
                                                   trading_days, FALSE)
        p_daily_vols    == convert_annual_to_daily(cfg.annual_volatilities,
                                                   trading_days, TRUE)
        portfolio_daily_mean_return == Dot(weights, p_daily_returns)
        p_daily_cov     == DailyCovariance(p_daily_vols, cfg.correlation_matrix)
        portfolio_daily_volatility ==
            ISqrt(PortfolioDailyVariance(weights, p_daily_cov))
        \* over DayDen
        adj_portfolio_mean_return == portfolio_daily_mean_return * time_horizon
        \* over DayDen * ZScale
        adj_portfolio_volatility ==
            AdjPortfolioVolatility(portfolio_daily_volatility, time_horizon)
        z_score == ZScore(alpha)
        var_parametric_return ==
            adj_portfolio_mean_return * ZScale * ZScale
                + adj_portfolio_volatility * z_score
        es_parametric_return ==
            IF adj_portfolio_volatility = 0
            THEN adj_portfolio_mean_return * ZScale * ZScale
            ELSE adj_portfolio_mean_return * ZScale * ZScale
                    - adj_portfolio_volatility * TailRatio(z_score, alpha)
    IN  [kind       |-> "tuple",
         var_value  |-> LossValue(var_parametric_return, portfolio_value),
         es_value   |-> LossValue(es_parametric_return, portfolio_value),
         var_return |-> var_parametric_return,
         es_return  |-> es_parametric_return]

\* ------------------------------------------------ monte_carlo_method.py
RECURSIVE InsertSorted(_, _)
InsertSorted(x, s) ==
    IF s = <<>> THEN <<x>>
    ELSE IF x <= Head(s) THEN <<x>> \o s
    ELSE <<Head(s)>> \o InsertSorted(x, Tail(s))

\* Mutant of NpSort: the array is returned as it is.
NpSortNone(s) == s

RECURSIVE NpSort(_)
\* np.sort: the same values in ascending order.
NpSort(s) == IF s = <<>> THEN <<>> ELSE InsertSorted(Head(s), NpSort(Tail(s)))

\* np.mean of an array (nan, the fraction 0 / 0, for an empty one).
NpMean(s) == Frac(SumTo(s, Len(s)), Len(s))

\* Mutant of NpIndex: a position that is not negative counts from the end.
NpIndexFromEnd(a, idx) == IF idx < 0 THEN a[Len(a) + idx + 1] ELSE a[Len(a) - idx]

\* a[idx] of numpy: positions count from 0, a negative idx counts from the end.
NpIndex(a, idx) == IF idx < 0 THEN a[Len(a) + idx + 1] ELSE a[idx + 1]

\* Mutant of VarIndex: the index is not clamped from below.
VarIndexNoLowerClamp(alpha, num_simulations) ==
    Min2(PyInt(alpha * num_simulations, PctScale), num_simulations - 1)

\* var_index = int(alpha * num_simulations), then clamped into the array.
VarIndex(alpha, num_simulations) ==
    Max2(0, Min2(PyInt(alpha * num_simulations, PctScale), num_simulations - 1))

\* Mutant of EsReturn: the averaging branches leave out the return at the VaR
\* index (the slice [:var_index]).
EsReturnExclusiveTail(sorted_sim_returns, idx, num_simulations) ==
    IF idx = 0 /\ NpIndex(sorted_sim_returns, 0) >= 0
    THEN Frac(NpIndex(sorted_sim_returns, 0), 1)
    ELSE NpMean(SubSeq(sorted_sim_returns, 1, idx))

\* Mutant of EsReturn: the mean is taken over the returns at or above the VaR
\* index (the wrong end of the sorted array).
EsReturnUpperTail(sorted_sim_returns, idx, num_simulations) ==
    IF idx = 0 /\ NpIndex(sorted_sim_returns, 0) >= 0
    THEN Frac(NpIndex(sorted_sim_returns, 0), 1)
    ELSE NpMean(SubSeq(sorted_sim_returns, idx + 1, num_simulations))

\* Mutant of EsReturn: the averaging branches take the mean of every simulated
\* return, whatever the VaR index.
EsReturnWholeArray(sorted_sim_returns, idx, num_simulations) ==
    IF idx = 0 /\ NpIndex(sorted_sim_returns, 0) >= 0
    THEN Frac(NpIndex(sorted_sim_returns, 0), 1)
    ELSE NpMean(sorted_sim_returns)

\* es_mc_return, the three branches of step 4.
EsReturn(sorted_sim_returns, idx, num_simulations) ==
    IF idx = 0 /\ NpIndex(sorted_sim_returns, 0) >= 0
    THEN Frac(NpIndex(sorted_sim_returns, 0), 1)
    ELSE IF idx < num_simulations - 1
    THEN NpMean(SubSeq(sorted_sim_returns, 1, idx + 1))
    ELSE NpMean(sorted_sim_returns)

\* Steps 3 and 4 and the return statement: the tuple the call returns.  The
\* returns are numerators over DayDen^time_horizon_days, es_* fractions of them.
Aggregated(returns, portfolio_value, alpha, num_simulations) ==
    LET sorted_sim_returns == NpSort(returns)
        idx           == VarIndex(alpha, num_simulations)
        var_mc_return == NpIndex(sorted_sim_returns, idx)
        es_mc_return  == EsReturn(sorted_sim_returns, idx, num_simulations)
    IN  [kind       |-> "tuple",
         var_value  |-> LossValue(var_mc_return, portfolio_value),
         es_value   |-> IF es_mc_return.den = 0 THEN Frac(0, 1)
                        ELSE Frac(LossValue(es_mc_return.num, portfolio_value),
                                  es_mc_return.den),
         var_return |-> var_mc_return,
         es_return  |-> es_mc_return,
         sorted_sim_returns |-> sorted_sim_returns]

\* --------------------------------------------------------------- inputs
\* Correlation matrix of two assets with off-diagonal rho / RhoScale.
CorrelationMatrix(rho) == <<<<RhoScale, rho>>, <<rho, RhoScale>>>>

\* 0, 0.6 (positive definite), 1 (singular), 2 (not positive semi-definite:
\* the [[1, 2], [2, 1]] of test_cholesky_error_handling) and -2 (not positive
\* semi-definite, and w^T Sigma w < 0 for the equally weighted portfolio).
Rhos == {0, 3, 5, 10, -10}

\* Weights sum to WeightScale; <<3, -1>> is 150% long, 50% short.
WeightVectors == {<<1, 1>>, <<3, -1>>}
AnnualVolatilities == {<<0, 0>>, <<20, 10>>}

\* portfolio_value, expected_annual_returns and trading_days_per_year.
Profiles ==
    { [portfolio_value |-> 1, expected_annual_returns |-> <<0, 0>>,
       trading_days_per_year |-> 1],
      [portfolio_value |-> 3, expected_annual_returns |-> <<8, 4>>,
       trading_days_per_year |-> 4] }

\* Confidence levels in percent: strictly inside (0, 1), and outside it.
ValidConfidenceLevels == {1, 50, 99}
ConfidenceLevels == ValidConfidenceLevels \cup {-50, 0, 100, 150}

MakeConfig(p, w, vols, rho, cl, T, n) ==
    [portfolio_value         |-> p.portfolio_value,
     weights                 |-> w,
     expected_annual_returns |-> p.expected_annual_returns,
     annual_volatilities     |-> vols,
     correlation_matrix      |-> CorrelationMatrix(rho),
     confidence_level        |-> cl,
     time_horizon_days       |-> T,
     num_simulations         |-> n,
     trading_days_per_year   |-> p.trading_days_per_year]

\* The two-asset models.
TwoAssetConfigs ==
    { MakeConfig(p, w, vols, rho, cl, T, n) :
        p \in Profiles, w \in WeightVectors, vols \in AnnualVolatilities,
        rho \in Rhos, cl \in ConfidenceLevels,
        T \in 1..MaxHorizon, n \in 1..MaxSims }

\* The single asset with weight 1 and zero expected return of
\* test_single_asset_zero_mean_var.
SingleAssetConfigs ==
    { [portfolio_value         |-> 3,
       weights                 |-> <<WeightScale>>,
       expected_annual_returns |-> <<0>>,
       annual_volatilities     |-> <<20>>,
       correlation_matrix      |-> <<<<RhoScale>>>>,
       confidence_level        |-> cl,
       time_horizon_days       |-> T,
       num_simulations         |-> n,
       trading_days_per_year   |-> 4] :
        cl \in ValidConfidenceLevels, T \in 1..MaxHorizon, n \in 1..MaxSims }

Configs == TwoAssetConfigs \cup SingleAssetConfigs

\* The configurations on which repeated calls are recorded and compared.
RepeatConfigs ==
    { MakeConfig(p, <<3, -1>>, <<20, 10>>, rho, 50, h[1], h[2]) :
        p \in Profiles, rho \in {3, 10},
        h \in {<<1, 1>>, <<MaxHorizon, MaxSims>>} }

\* Daily volatilities a caller passes that have nothing to do with the
\* covariance matrix (test_cholesky_error_handling passes such a dummy).
DummyDailyVols == <<1, 1>>

None == [kind |-> "none"]

NoCall ==
    /\ daily_returns = <<>>
    /\ daily_vols = <<>>
    /\ daily_covariance_matrix = <<>>
    /\ L_matrix = <<>>
    /\ i = 0
    /\ day = 0
    /\ current_portfolio_value_sim = 0
    /\ sim_horizon_portfolio_returns = <<>>
    /\ var_index = 0
    /\ result = None
    /\ rng_at_call = 0
    /\ day_steps = 0

\* No run of run_risk_calculations: the calculators are called directly.
NoRun == [pc |-> "none", weights_type |-> "ndarray", output |-> <<>>]

InitWith(configs, rec) ==
    /\ portfolio_config \in configs
    /\ rng \in RngStates
    /\ pc = "idle"
    /\ NoCall
    /\ recording = rec
    /\ last_param = None
    /\ last_mc = None
    /\ run = NoRun

Init == InitWith(Configs, FALSE)
InitRepeat == InitWith(RepeatConfigs, TRUE)

\* ----------------------------------------------------- the caller's steps
\* np.random.seed(k), between calls.
Seed(s) ==
    /\ pc = "idle"
    /\ rng' = s
    /\ UNCHANGED <<portfolio_config, pc, args, locals, result, rng_at_call, history,
                   day_steps, run>>

\* calculate_parametric_var_es(portfolio_config), for a confidence level
\* strictly inside (0, 1) (outside it the quantile is not finite).  The
\* function's own daily_returns, daily_vols and daily_covariance_matrix are
\* kept until it has returned.
CallParametric ==
    /\ pc = "idle"
    /\ portfolio_config.confidence_level \in ValidConfidenceLevels
    /\ LET cfg == portfolio_config
       IN  /\ daily_returns' = convert_annual_to_daily(cfg.expected_annual_returns,
                                                       cfg.trading_days_per_year, FALSE)
           /\ daily_vols' = convert_annual_to_daily(cfg.annual_volatilities,
                                                    cfg.trading_days_per_year, TRUE)
           /\ daily_covariance_matrix' =
                  DailyCovariance(daily_vols', cfg.correlation_matrix)
    /\ result' = calculate_parametric_var_es(portfolio_config)
    /\ rng_at_call' = rng
    /\ pc' = "param_returned"
    /\ UNCHANGED <<portfolio_config, rng, locals, history, day_steps, run>>

\* Mutant of FactorOrRaise: a failed factorization is recovered from by
\* simulating with uncorrelated unit shocks.
FactorOrFallback(cov) ==
    LET L == Cholesky(cov)
    IN  IF L.kind = "LinAlgError"
        THEN [kind |-> "ok", L |-> Diag([k \in 1..Len(cov) |-> ReturnScale])]
        ELSE L

\* The try / except around np.linalg.cholesky: the factor, or ValueError.
FactorOrRaise(cov) ==
    LET L == Cholesky(cov)
    IN  IF L.kind = "LinAlgError" THEN [kind |-> "ValueError"] ELSE L

\* Mutant of EntryDraws: the first day's variates are drawn before the
\* covariance matrix is factorized.
EntryDrawsFirstDay(num_assets) == NormalDraws(rng, num_assets)

\* The variates the call draws before the day loop: none (the Cholesky
\* factorization and np.zeros come first and draw nothing).
EntryDraws(num_assets) == <<>>

\* The caller's preparation (main.py steps 2 and 4, the tests' setUp) and the
\* entry of calculate_monte_carlo_var_es up to the Cholesky factorization.
CallMonteCarlo(dv) ==
    /\ pc = "idle"
    /\ LET cfg  == portfolio_config
           dr   == convert_annual_to_daily(cfg.expected_annual_returns,
                                           cfg.trading_days_per_year, FALSE)
           dvol == convert_annual_to_daily(cfg.annual_volatilities,
                                           cfg.trading_days_per_year, TRUE)
           cov  == DailyCovariance(dvol, cfg.correlation_matrix)
           L    == FactorOrRaise(cov)
       IN  /\ daily_returns' = dr
           /\ daily_vols' = IF dv = "derived" THEN dvol ELSE DummyDailyVols
           /\ daily_covariance_matrix' = cov
           /\ rng_at_call' = rng
           /\ IF L.kind = "ValueError"
              THEN /\ result' = L
                   /\ pc' = "mc_raised"
                   /\ UNCHANGED locals
              ELSE /\ L_matrix' = L.L
                   /\ sim_horizon_portfolio_returns' =
                          [k \in 1..cfg.num_simulations |-> 0]
                   /\ i' = 0
                   /\ pc' = "path_start"
                   /\ UNCHANGED <<day, current_portfolio_value_sim, var_index, result>>
    /\ rng' = RngAfter(rng, Len(EntryDraws(Len(portfolio_config.weights))))
    /\ UNCHANGED <<portfolio_config, history, day_steps, run>>

\* ------------------------------------- calculate_monte_carlo_var_es, loop
\* The value a path starts from.
PathStartValue(portfolio_value) == portfolio_value

\* for i in range(num_simulations): current_portfolio_value_sim = portfolio_value
PathStart ==
    /\ pc = "path_start"
    /\ i < portfolio_config.num_simulations
    /\ current_portfolio_value_sim' = PathStartValue(portfolio_config.portfolio_value)
    /\ day' = 0
    /\ pc' = "day_loop"
    /\ UNCHANGED <<portfolio_config, rng, args, L_matrix, i,
                   sim_horizon_portfolio_returns, var_index, result,
                   rng_at_call, history, day_steps, run>>

\* Mutant of SimDailyPortfolioReturn: each asset's shock is its variate
\* scaled by the daily_vols argument, not the Cholesky factor's row.
SimDailyPortfolioReturnFromVols(weights, dr, L, standard_random_numbers) ==
    Dot(weights,
        [k \in 1..Len(dr) |-> dr[k] + daily_vols[k] * standard_random_numbers[k]])

\* The portfolio's return of one day (over DayDen) from that day's variates.
SimDailyPortfolioReturn(weights, dr, L, standard_random_numbers) ==
    LET Lz == MatVec(L, standard_random_numbers)
        sim_daily_asset_returns == [k \in 1..Len(dr) |-> dr[k] + Lz[k]]
    IN  Dot(weights, sim_daily_asset_returns)

\* Mutant of CompoundedValue: the day's gain on the initial value is added
\* (returns accumulate additively).
AccumulatedValue(value, sim_daily_portfolio_return) ==
    value * DayDen
        + portfolio_config.portfolio_value * sim_daily_portfolio_return
            * Pow(DayDen, day)

\* current_portfolio_value_sim *= (1 + sim_daily_portfolio_return): the value
\* over DayDen^day becomes one over DayDen^(day + 1).
CompoundedValue(value, sim_daily_portfolio_return) ==
    value * (DayDen + sim_daily_portfolio_return)

\* Mutant of DailyReturnsAfterDay: the shocks are added to the argument in
\* place (daily_returns += ...).
DailyReturnsShockedInPlace(dr, correlated_random_shocks) ==
    [k \in 1..Len(dr) |-> dr[k] + correlated_random_shocks[k]]

\* The argument daily_returns after a day: daily_returns + shocks builds a
\* new array, the argument keeps its values.
DailyReturnsAfterDay(dr, correlated_random_shocks) == dr

\* One pass of the inner loop: draw, transform, compound.
DayStep ==
    /\ pc = "day_loop"
    /\ day < portfolio_config.time_horizon_days
    /\ \E s \in DrawSource(rng) :
         LET num_assets == Len(portfolio_config.weights)
             standard_random_numbers == NormalDraws(s, num_assets)
             sim_daily_portfolio_return ==
                 SimDailyPortfolioReturn(portfolio_config.weights, daily_returns,
                                         L_matrix, standard_random_numbers)
         IN  /\ current_portfolio_value_sim' =
                    CompoundedValue(current_portfolio_value_sim,
                                    sim_daily_portfolio_return)
             /\ daily_returns' =
                    DailyReturnsAfterDay(daily_returns,
                                         MatVec(L_matrix, standard_random_numbers))
             /\ rng' = RngAfter(s, num_assets)
    /\ day' = day + 1
    /\ day_steps' = day_steps + 1
    /\ UNCHANGED <<portfolio_config, pc, daily_vols, daily_covariance_matrix,
                   L_matrix, i, sim_horizon_portfolio_returns, var_index, result,
                   rng_at_call, history, run>>

\* (current_portfolio_value_sim / portfolio_value) - 1, the value being a
\* numerator over DayDen^time_horizon and the return one over the same.
HorizonReturn(value, portfolio_value, time_horizon) ==
    (value \div portfolio_value) - Pow(DayDen, time_horizon)

\* The end of a path: record its return.
PathEnd ==
    /\ pc = "day_loop"
    /\ day = portfolio_config.time_horizon_days
    /\ sim_horizon_portfolio_returns' =
          [sim_horizon_portfolio_returns EXCEPT ![i + 1] =
              HorizonReturn(current_portfolio_value_sim,
                            portfolio_config.portfolio_value,
                            portfolio_config.time_horizon_days)]
    /\ i' = i + 1
    /\ pc' = "path_start"
    /\ UNCHANGED <<portfolio_config, rng, args, L_matrix, day,
                   current_portfolio_value_sim, var_index, result,
                   rng_at_call, history, day_steps, run>>

\* Mutant of RangeExhausted: the loop over the paths may be left as soon as
\* one path is recorded.
RangeLeftEarly(paths_done, num_simulations) == paths_done >= 1

\* for i in range(num_simulations) is over: every i has had its pass.
RangeExhausted(paths_done, num_simulations) == paths_done = num_simulations

\* After the loop: sort, VaR index, VaR, ES, return.
Aggregate ==
    /\ pc = "path_start"
    /\ RangeExhausted(i, portfolio_config.num_simulations)
    /\ LET alpha == PctScale - portfolio_config.confidence_level
       IN  /\ var_index' = VarIndex(alpha, portfolio_config.num_simulations)
           /\ result' = Aggregated(sim_horizon_portfolio_returns,
                                   portfolio_config.portfolio_value,
                                   alpha, portfolio_config.num_simulations)
    /\ pc' = "mc_returned"
    /\ UNCHANGED <<portfolio_config, rng, args, L_matrix, i, day,
                   current_portfolio_value_sim, sim_horizon_portfolio_returns,
                   rng_at_call, history, day_steps, run>>

\* The call is over: its arguments and locals are gone, the caller goes on.
Return ==
    /\ pc \in {"param_returned", "param_raised", "mc_returned", "mc_raised"}
    /\ pc' = "idle"
    /\ daily_returns' = <<>>
    /\ daily_vols' = <<>>
    /\ daily_covariance_matrix' = <<>>
    /\ L_matrix' = <<>>
    /\ i' = 0
    /\ day' = 0
    /\ current_portfolio_value_sim' = 0
    /\ sim_horizon_portfolio_returns' = <<>>
    /\ var_index' = 0
    /\ result' = None
    /\ rng_at_call' = 0
    /\ day_steps' = 0
    /\ last_param' =
          IF ~recording THEN last_param
          ELSE IF pc = "param_returned"
               THEN [kind |-> "call", rng0 |-> rng_at_call, result |-> result,
                     mc_since |-> FALSE]
          ELSE IF last_param.kind = "none" THEN None
          ELSE [last_param EXCEPT !.mc_since = TRUE]
    /\ last_mc' =
          IF recording /\ pc \in {"mc_returned", "mc_raised"}
          THEN [kind |-> "call", rng0 |-> rng_at_call, daily_vols |-> daily_vols,
                result |-> result]
          ELSE last_mc
    /\ UNCHANGED <<portfolio_config, rng, recording, run>>

\* ------------------------------------------- main.py, run_risk_calculations
\* The models a run is made on, each with weights held as a numpy array or as
\* a plain list (on a list, weights.T of parametric_method.py:75 raises
\* AttributeError, while the Monte Carlo call works on it).
RunConfigs ==
    { MakeConfig(p, w, <<20, 10>>, rho, cl, T, n) :
        p \in Profiles, w \in WeightVectors, rho \in {3, 10}, cl \in {50, 99},
        T \in 1..MaxHorizon, n \in 1..MaxSims }

WeightsTypes == {"ndarray", "list"}

InitRun ==
    /\ portfolio_config \in RunConfigs
    /\ rng \in RngStates
    /\ pc = "idle"
    /\ NoCall
    /\ recording = FALSE
    /\ last_param = None
    /\ last_mc = None
    /\ run \in { [pc |-> "prep", weights_type |-> t, output |-> <<>>] :
                    t \in WeightsTypes }

\* Mutant of AfterTry: an exception raised inside the try is not caught and
\* ends the run.
AfterTryPropagates(raised, next_step) == IF raised THEN "aborted" ELSE next_step

\* Where the run goes on after a try statement: except Exception catches what
\* the body raised, so in either case with the statement that follows it.
AfterTry(raised, next_step) == next_step

\* Steps 1 and 2: load the configuration, prepare the daily figures (they are
\* handed over in RunCallMonteCarlo).
RunPrepare ==
    /\ run.pc = "prep"
    /\ pc = "idle"
    /\ run' = [run EXCEPT !.pc = "parametric"]
    /\ UNCHANGED <<portfolio_config, rng, pc, args, locals, result, rng_at_call,
                   history, day_steps>>

\* Step 3, the call, on weights that are a numpy array.
RunCallParametric ==
    /\ run.pc = "parametric"
    /\ run.weights_type = "ndarray"
    /\ CallParametric

\* Step 3, the call, on weights that are a list: the function gets as far as
\* weights.T and raises.
RunParametricRaises ==
    /\ run.pc = "parametric"
    /\ run.weights_type = "list"
    /\ pc = "idle"
    /\ LET cfg == portfolio_config
       IN  /\ daily_returns' = convert_annual_to_daily(cfg.expected_annual_returns,
                                                       cfg.trading_days_per_year, FALSE)
           /\ daily_vols' = convert_annual_to_daily(cfg.annual_volatilities,
                                                    cfg.trading_days_per_year, TRUE)
           /\ daily_covariance_matrix' =
                  DailyCovariance(daily_vols', cfg.correlation_matrix)
    /\ result' = [kind |-> "AttributeError"]
    /\ rng_at_call' = rng
    /\ pc' = "param_raised"
    /\ UNCHANGED <<portfolio_config, rng, locals, history, day_steps, run>>

\* Step 3, after the call: display_results, or the except clause's report.
RunAfterParametric ==
    /\ run.pc = "parametric"
    /\ pc \in {"param_returned", "param_raised"}
    /\ run' = [run EXCEPT
                 !.output = Append(@, IF pc = "param_returned"
                                      THEN "display_parametric"
                                      ELSE "error_parametric"),
                 !.pc = AfterTry(pc = "param_raised", "monte_carlo")]
    /\ UNCHANGED <<portfolio_config, rng, pc, args, locals, result, rng_at_call,
                   history, day_steps>>

\* The results a finished step held are dropped.
RunReturn ==
    /\ \/ run.pc = "monte_carlo" /\ pc \in {"param_returned", "param_raised"}
       \/ run.pc = "finishing" /\ pc \in {"mc_returned", "mc_raised"}
    /\ Return

\* Step 4, the call, with the daily figures of step 2.
RunCallMonteCarlo ==
    /\ run.pc = "monte_carlo"
    /\ CallMonteCarlo("derived")

\* Step 4 and 5, after the call: display_results and the histogram, or the
\* except clause's report.
RunAfterMonteCarlo ==
    /\ run.pc = "monte_carlo"
    /\ pc \in {"mc_returned", "mc_raised"}
    /\ run' = [run EXCEPT
                 !.output = Append(@, IF pc = "mc_returned"
                                      THEN "display_monte_carlo"
                                      ELSE "error_monte_carlo"),
                 !.pc = AfterTry(pc = "mc_raised", "finishing")]
    /\ UNCHANGED <<portfolio_config, rng, pc, args, locals, result, rng_at_call,
                   history, day_steps>>

\* print("--- Risk Calculations Finished ---")
RunFinish ==
    /\ run.pc = "finishing"
    /\ pc = "idle"
    /\ run' = [run EXCEPT !.output = Append(@, "finished"), !.pc = "finished"]
    /\ UNCHANGED <<portfolio_config, rng, pc, args, locals, result, rng_at_call,
                   history, day_steps>>

NextRun ==
    \/ RunPrepare
    \/ RunCallParametric
    \/ RunParametricRaises
    \/ RunAfterParametric
    \/ RunReturn
    \/ RunCallMonteCarlo
    \/ PathStart
    \/ DayStep
    \/ PathEnd
    \/ Aggregate
    \/ RunAfterMonteCarlo
    \/ RunFinish

Next ==
    \/ \E s \in SeedStates : Seed(s)
    \/ CallParametric
    \/ \E dv \in {"derived", "dummy"} : CallMonteCarlo(dv)
    \/ PathStart
    \/ DayStep
    \/ PathEnd
    \/ Aggregate
    \/ Return

Spec == Init /\ [][Next]_vars
SpecRepeat == InitRepeat /\ [][Next]_vars

\* The run enters a calculator: control passes from the caller into the call.
EntersParametric ==
    /\ run.pc = "parametric"
    /\ pc = "idle"
    /\ pc' \in {"param_returned", "param_raised"}

EntersMonteCarlo ==
    /\ run.pc = "monte_carlo"
    /\ pc = "idle"
    /\ pc' \in {"path_start", "mc_raised"}

\* The steps of a run outside the entry of a call.
RunSteps ==
    \/ RunPrepare
    \/ RunAfterParametric
    \/ RunReturn
    \/ PathStart
    \/ DayStep
    \/ PathEnd
    \/ Aggregate
    \/ RunAfterMonteCarlo
    \/ RunFinish

\* A run is one thread of control that executes statement after statement:
\* it does not stop while a step is left to take, be it a step outside a
\* call or the entry of one.
SpecRun ==
    /\ InitRun
    /\ [][NextRun]_vars
    /\ WF_vars(RunSteps)
    /\ WF_pc(EntersParametric)
    /\ WF_pc(EntersMonteCarlo)

\* ===================================================================
\* Properties
\* ===================================================================
Returned == pc \in {"param_returned", "mc_returned", "mc_raised"}
InMonteCarlo == pc \in {"mc_raised", "path_start", "day_loop", "mc_returned"}
ValidConfidence == portfolio_config.confidence_level \in ValidConfidenceLevels

\* Which branch of the ES computation the returned call took.
EsBranch ==
    IF var_index = 0 /\ result.sorted_sim_returns[1] >= 0 THEN 1
    ELSE IF var_index < portfolio_config.num_simulations - 1 THEN 2
    ELSE 3

\* C1: for every valid model the parametric calculator returns
\* es_value >= var_value and es_return <= var_return.
C1_ParametricEsDeeperThanVar ==
    pc = "param_returned" =>
        /\ result.es_value >= result.var_value
        /\ result.es_return <= result.var_return

\* A parametric result with dispersion: ES strictly deeper than a positive VaR.
C1_Witness ==
    /\ pc = "param_returned"
    /\ result.es_return < result.var_return
    /\ result.es_value > result.var_value
    /\ result.var_value > 0

\* C2: for every valid model and every sequence of draws the Monte Carlo
\* simulator returns es_return <= var_return and es_value >= var_value, in
\* each of the three branches of the ES computation.
C2_MonteCarloEsDeeperThanVar ==
    (pc = "mc_returned" /\ ValidConfidence) =>
        /\ FracLe(result.es_return, Frac(result.var_return, 1))
        /\ FracLe(Frac(result.var_value, 1), result.es_value)

\* The averaging branch over more than one return, ES strictly below VaR.
C2_Witness ==
    /\ pc = "mc_returned"
    /\ ValidConfidence
    /\ EsBranch = 2
    /\ var_index >= 1
    /\ ~FracLe(Frac(result.var_return, 1), result.es_return)
    /\ ~FracLe(result.es_value, Frac(result.var_value, 1))

\* A matrix of one or two rows is positive definite iff its leading principal
\* minors are positive: exactly then it has a Cholesky factor with a positive
\* diagonal.
LeadingMinorsPositive(A) ==
    /\ A[1][1] > 0
    /\ Len(A) = 2 => A[1][1] * A[2][2] - A[2][1] * A[1][2] > 0

\* C3: when the covariance matrix has no Cholesky factorization the Monte
\* Carlo call raises ValueError: it never simulates with another matrix and
\* never returns a result tuple.
C3_NoFactorizationRaises ==
    (InMonteCarlo /\ ~LeadingMinorsPositive(daily_covariance_matrix)) =>
        /\ pc = "mc_raised"
        /\ result = [kind |-> "ValueError"]
        /\ L_matrix = <<>>

\* The call raised on the correlation [[1, 2], [2, 1]] with positive volatilities.
C3_Witness ==
    /\ pc = "mc_raised"
    /\ portfolio_config.correlation_matrix = CorrelationMatrix(2 * RhoScale)
    /\ daily_covariance_matrix[1][1] > 0
    /\ daily_covariance_matrix[2][2] > 0

\* C4: the fifth output has exactly num_simulations entries and is
\* non-decreasing.
C4_SortedOutput ==
    pc = "mc_returned" =>
        /\ Len(result.sorted_sim_returns) = portfolio_config.num_simulations
        /\ \A k \in 1..(Len(result.sorted_sim_returns) - 1) :
              result.sorted_sim_returns[k] <= result.sorted_sim_returns[k + 1]

\* The simulated returns were not in order before the sort.
C4_Witness ==
    /\ pc = "mc_returned"
    /\ portfolio_config.num_simulations = MaxSims
    /\ \E k \in 1..(MaxSims - 1) :
          sim_horizon_portfolio_returns[k] > sim_horizon_portfolio_returns[k + 1]

\* C5: two Monte Carlo calls with identical arguments, each started from the
\* same state of the random source, return identical outputs (or both raise).
C5_SeededRunsRepeat ==
    ( /\ pc \in {"mc_returned", "mc_raised"}
      /\ last_mc.kind = "call"
      /\ last_mc.rng0 = rng_at_call
      /\ last_mc.daily_vols = daily_vols ) =>
        last_mc.result = result

\* A simulation was repeated after re-seeding and returned the same tuple.
C5_Witness ==
    /\ pc = "mc_returned"
    /\ portfolio_config.num_simulations = MaxSims
    /\ last_mc.kind = "call"
    /\ last_mc.rng0 = rng_at_call
    /\ last_mc.daily_vols = daily_vols
    /\ rng # rng_at_call
    /\ result.kind = "tuple"
    /\ last_mc.result = result

\* C6: two parametric calls with identical inputs return identical outputs,
\* whatever calls happened in between and whatever the random source holds.
C6_ParametricRepeats ==
    (pc = "param_returned" /\ last_param.kind = "call") =>
        last_param.result = result

\* The parametric call was repeated after a Monte Carlo call, with the random
\* source in another state than at the first call.
C6_Witness ==
    /\ pc = "param_returned"
    /\ last_param.kind = "call"
    /\ last_param.mc_since
    /\ last_param.rng0 # rng_at_call
    /\ last_param.result = result

RECURSIVE Advanced(_, _)
\* The random source k variates later.
Advanced(s, k) == IF k = 0 THEN s ELSE Advanced(NextRng(s), k - 1)

\* The variates one simulation consumes.
DrawsPerSimulation ==
    portfolio_config.num_simulations * portfolio_config.time_horizon_days
        * Len(portfolio_config.weights)

\* C7 as claimed: every call of either calculator leaves all state that
\* outlives it as it was, so a repeated call with the same arguments gives
\* the same result with nothing reset in between.
C7_StatelessAsClaimed ==
    Returned =>
        /\ rng = rng_at_call
        /\ (pc = "param_returned" /\ last_param.kind = "call") =>
              last_param.result = result
        /\ ( /\ pc # "param_returned"
             /\ last_mc.kind = "call"
             /\ last_mc.daily_vols = daily_vols ) =>
              last_mc.result = result

\* C7 (amended): a parametric call and a Monte Carlo call that raises leave
\* the random source as it was; a Monte Carlo call that simulates leaves it
\* advanced by num_simulations * time_horizon_days * num_assets variates, and
\* repeats its result when it starts from the same state of the random source.
C7_OnlyRandomSourceOutlives ==
    /\ pc = "param_returned" =>
          /\ rng = rng_at_call
          /\ last_param.kind = "call" => last_param.result = result
    /\ pc = "mc_raised" => rng = rng_at_call
    /\ pc = "mc_returned" =>
          /\ rng = Advanced(rng_at_call, DrawsPerSimulation)
          /\ ( /\ last_mc.kind = "call"
               /\ last_mc.rng0 = rng_at_call
               /\ last_mc.daily_vols = daily_vols ) =>
                last_mc.result = result

\* A simulation was repeated with the same arguments and nothing re-seeded in
\* between: the random source had moved on, and the result differs.
C7_Witness ==
    /\ pc = "mc_returned"
    /\ rng # rng_at_call
    /\ last_mc.kind = "call"
    /\ last_mc.daily_vols = daily_vols
    /\ last_mc.rng0 # rng_at_call
    /\ last_mc.result.kind = "tuple"
    /\ last_mc.result # result

VolatilitiesPositive ==
    \A k \in 1..Len(portfolio_config.annual_volatilities) :
        portfolio_config.annual_volatilities[k] > 0

\* A symmetric matrix of one or two rows is positive semi-definite iff all
\* its principal minors are non-negative.
PrincipalMinorsNonNegative(A) ==
    /\ A[1][1] >= 0
    /\ Len(A) = 2 =>
          /\ A[2][2] >= 0
          /\ A[1][1] * A[2][2] - A[2][1] * A[1][2] >= 0

\* C8 as claimed: with positive volatilities the Monte Carlo call returns a
\* result whenever the correlation matrix is positive semi-definite, and
\* raises only when it is not.
C8_SemiDefiniteAsClaimed ==
    (InMonteCarlo /\ VolatilitiesPositive) =>
        /\ PrincipalMinorsNonNegative(portfolio_config.correlation_matrix) =>
              pc # "mc_raised"
        /\ pc = "mc_raised" =>
              ~PrincipalMinorsNonNegative(portfolio_config.correlation_matrix)

\* C8 (amended): with positive volatilities the Monte Carlo call raises the
\* invalid-covariance error exactly when the correlation matrix is not
\* positive definite; a singular positive semi-definite one is rejected.
C8_PositiveDefiniteDecides ==
    (InMonteCarlo /\ VolatilitiesPositive) =>
        (pc = "mc_raised" <=>
            ~LeadingMinorsPositive(portfolio_config.correlation_matrix))

\* The call raised on a positive semi-definite, singular correlation matrix.
C8_Witness ==
    /\ pc = "mc_raised"
    /\ VolatilitiesPositive
    /\ PrincipalMinorsNonNegative(portfolio_config.correlation_matrix)
    /\ ~LeadingMinorsPositive(portfolio_config.correlation_matrix)

\* C9: with num_simulations = 1 and a confidence level in (0, 1) the VaR index
\* is 0 and var_return and es_return are the single simulated return.
C9_SingleSimulation ==
    ( /\ pc = "mc_returned"
      /\ portfolio_config.num_simulations = 1
      /\ ValidConfidence ) =>
        /\ var_index = 0
        /\ result.var_return = sim_horizon_portfolio_returns[1]
        /\ FracEq(result.es_return, Frac(sim_horizon_portfolio_returns[1], 1))

\* The single simulated return is a loss: the last branch of the ES
\* computation is the one taken.
C9_Witness ==
    /\ pc = "mc_returned"
    /\ portfolio_config.num_simulations = 1
    /\ ValidConfidence
    /\ sim_horizon_portfolio_returns[1] < 0
    /\ EsBranch = 3

\* C10: for every alpha, inside (0, 1) or not, the VaR index is
\* clamp(floor(alpha * num_simulations), 0, num_simulations - 1), a position
\* of the sorted returns, and var_return is the sorted return at it.
C10_VarIndexClamped ==
    pc = "mc_returned" =>
        LET alpha == PctScale - portfolio_config.confidence_level
            n     == portfolio_config.num_simulations
        IN  /\ var_index = Max2(0, Min2(Floor(alpha * n, PctScale), n - 1))
            /\ var_index \in 0..(n - 1)
            /\ result.var_return = result.sorted_sim_returns[var_index + 1]

\* A negative alpha whose product with num_simulations int() and floor round
\* differently.
C10_Witness ==
    /\ pc = "mc_returned"
    /\ LET alpha == PctScale - portfolio_config.confidence_level
           n     == portfolio_config.num_simulations
       IN  /\ alpha < 0
           /\ PyInt(alpha * n, PctScale) # Floor(alpha * n, PctScale)
           /\ var_index = 0

\* C11: in every branch of the ES computation es_return is the arithmetic
\* mean of the sorted returns at positions 0 .. var_index (inclusive); when
\* var_index = 0 and the worst return is non-negative it is that return.
C11_EsIsMeanOfTail ==
    pc = "mc_returned" =>
        LET sorted == result.sorted_sim_returns
        IN  /\ FracEq(result.es_return, NpMean(SubSeq(sorted, 1, var_index + 1)))
            /\ (var_index = 0 /\ sorted[1] >= 0) =>
                  result.es_return = Frac(sorted[1], 1)

\* The last branch with several distinct returns: the mean of the whole
\* array, which is the tail up to the VaR index, lies strictly between the
\* worst return and the VaR return.
C11_Witness ==
    /\ pc = "mc_returned"
    /\ EsBranch = 3
    /\ var_index = MaxSims - 1
    /\ result.sorted_sim_returns[1] < result.var_return
    /\ ~FracLe(result.es_return, Frac(result.sorted_sim_returns[1], 1))
    /\ ~FracLe(Frac(result.var_return, 1), result.es_return)

\* C12: in both calculators, portfolio_value being positive, var_value and
\* es_value are never negative, are 0 exactly when the corresponding return
\* is >= 0, and otherwise are the return's magnitude times portfolio_value.
C12_ValuesAreFlooredLosses ==
    /\ pc = "param_returned" =>
          LET pv == portfolio_config.portfolio_value
          IN  /\ result.var_value >= 0
              /\ result.es_value >= 0
              /\ (result.var_value = 0) <=> (result.var_return >= 0)
              /\ (result.es_value = 0) <=> (result.es_return >= 0)
              /\ result.var_return < 0 => result.var_value = (-result.var_return) * pv
              /\ result.es_return < 0 => result.es_value = (-result.es_return) * pv
    /\ pc = "mc_returned" =>
          LET pv == portfolio_config.portfolio_value
              er == result.es_return
              ev == result.es_value
          IN  /\ er.den > 0
              /\ ev.den > 0
              /\ result.var_value >= 0
              /\ ev.num >= 0
              /\ (result.var_value = 0) <=> (result.var_return >= 0)
              /\ (ev.num = 0) <=> (er.num >= 0)
              /\ result.var_return < 0 => result.var_value = (-result.var_return) * pv
              /\ er.num < 0 => FracEq(ev, Frac((-er.num) * pv, er.den))

\* A simulation whose VaR return is a gain (value floored at 0) while its ES
\* return is a loss (value the magnitude times portfolio_value).
C12_Witness ==
    /\ pc = "mc_returned"
    /\ portfolio_config.portfolio_value > 1
    /\ result.var_return > 0
    /\ result.var_value = 0
    /\ result.es_return.num < 0
    /\ result.es_value.num > 0

\* The horizon mean (weights . daily_returns) * time_horizon_days, as a
\* numerator over ParamDen.
HorizonMean ==
    Dot(portfolio_config.weights, daily_returns)
        * portfolio_config.time_horizon_days * ZScale * ZScale

AllVolatilitiesZero ==
    \A k \in 1..Len(portfolio_config.annual_volatilities) :
        portfolio_config.annual_volatilities[k] = 0

\* C13: with all volatilities zero and a confidence level in (0, 1) the
\* parametric call returns (no division by zero) and var_return and
\* es_return are exactly the horizon mean.
C13_ZeroVolatilityIsMean ==
    (pc = "param_returned" /\ AllVolatilitiesZero) =>
        /\ result.kind = "tuple"
        /\ result.var_return = HorizonMean
        /\ result.es_return = HorizonMean

\* Zero volatilities with a horizon mean that is not zero, at a confidence
\* level whose quantile is not zero.
C13_Witness ==
    /\ pc = "param_returned"
    /\ AllVolatilitiesZero
    /\ HorizonMean > 0
    /\ portfolio_config.time_horizon_days = MaxHorizon
    /\ ZScore(PctScale - portfolio_config.confidence_level) < 0
    /\ result.es_return = HorizonMean

\* w^T Sigma w as computed, before the clamp.
RawDailyVariance ==
    Dot(portfolio_config.weights,
        MatVec(daily_covariance_matrix, portfolio_config.weights))

\* C14: the parametric call raises nothing of its own; when w^T Sigma w comes
\* out negative the call returns what it returns for the same model with
\* zero volatilities: var_return = es_return = the horizon mean.
C14_NegativeVarianceClamped ==
    pc = "param_returned" =>
        /\ result.kind = "tuple"
        /\ RawDailyVariance < 0 =>
              /\ result.var_return = HorizonMean
              /\ result.es_return = HorizonMean
              /\ result = calculate_parametric_var_es(
                     [portfolio_config EXCEPT !.annual_volatilities =
                         [k \in 1..Len(portfolio_config.weights) |-> 0]])

\* A negative variance from the correlation [[1, -2], [-2, 1]] with positive
\* volatilities, at a confidence level whose quantile is not zero.
C14_Witness ==
    /\ pc = "param_returned"
    /\ RawDailyVariance < 0
    /\ VolatilitiesPositive
    /\ ~PrincipalMinorsNonNegative(portfolio_config.correlation_matrix)
    /\ ZScore(PctScale - portfolio_config.confidence_level) < 0
    /\ result.var_return = HorizonMean

\* The daily volatilities held are the converted ones (not a caller's dummy).
DailyVolsConverted ==
    \/ pc = "param_returned"
    \/ InMonteCarlo /\ daily_vols # DummyDailyVols

\* C15: convert_annual_to_daily gives, element by element, annual /
\* trading_days for returns (daily * trading_days = annual) and annual /
\* sqrt(trading_days) for volatilities (daily >= 0 and daily^2 * trading_days
\* = annual^2).
C15_AnnualToDaily ==
    LET cfg == portfolio_config
        td  == cfg.trading_days_per_year
    IN  /\ pc # "idle" =>
              /\ Len(daily_returns) = Len(cfg.expected_annual_returns)
              /\ \A k \in 1..Len(daily_returns) :
                    daily_returns[k] * td = cfg.expected_annual_returns[k]
        /\ DailyVolsConverted =>
              /\ Len(daily_vols) = Len(cfg.annual_volatilities)
              /\ \A k \in 1..Len(daily_vols) :
                    /\ daily_vols[k] >= 0
                    /\ daily_vols[k] * daily_vols[k] * td
                          = cfg.annual_volatilities[k] * cfg.annual_volatilities[k]

\* More than one trading day a year, returns and volatilities not zero: the
\* two scalings give different factors.
C15_Witness ==
    /\ pc = "param_returned"
    /\ portfolio_config.trading_days_per_year > 1
    /\ daily_returns[1] > 0
    /\ daily_vols[1] > 0
    /\ daily_returns[1] * portfolio_config.trading_days_per_year
          = portfolio_config.expected_annual_returns[1]
    /\ daily_vols[1] * portfolio_config.trading_days_per_year
          > portfolio_config.annual_volatilities[1]

\* C16: the daily covariance matrix, the one calculate_parametric_var_es
\* builds and the one the caller builds for the Monte Carlo call alike, has
\* the entry vol_r * vol_c * C[r][c] at (r, c), the vol being the daily
\* volatilities of the model (annual / sqrt(trading_days)): the two matrices
\* are the same function of the model, hence identical.
C16_CovarianceIsDCD ==
    (pc = "param_returned" \/ InMonteCarlo) =>
        LET cfg == portfolio_config
            n   == Len(cfg.annual_volatilities)
            cov == daily_covariance_matrix
        IN  /\ Len(cov) = n
            /\ \A r \in 1..n :
                  /\ Len(cov[r]) = n
                  /\ \A c \in 1..n :
                        /\ cov[r][c] * RhoScale * cfg.trading_days_per_year
                              = cfg.annual_volatilities[r] * cfg.annual_volatilities[c]
                                  * cfg.correlation_matrix[r][c]
                        /\ DailyVolsConverted =>
                              cov[r][c] * RhoScale
                                = daily_vols[r] * daily_vols[c]
                                    * cfg.correlation_matrix[r][c]

\* The caller's matrix for a simulation with different volatilities and a
\* correlation strictly between 0 and 1.
C16_Witness ==
    /\ pc = "mc_returned"
    /\ DailyVolsConverted
    /\ Len(daily_vols) = 2
    /\ daily_vols[1] > daily_vols[2]
    /\ daily_vols[2] > 0
    /\ portfolio_config.correlation_matrix[1][2] \in 1..(RhoScale - 1)
    /\ daily_covariance_matrix[1][2] * RhoScale
          = daily_vols[1] * daily_vols[2] * portfolio_config.correlation_matrix[1][2]
    /\ daily_covariance_matrix[1][2] = daily_covariance_matrix[2][1]

\* C17: neither calculator modifies its inputs: portfolio_config never
\* changes, and from the entry of a call until it has returned or raised the
\* daily returns, volatilities and covariance matrix keep their values.
C17_InputsUnchanged ==
    [][ /\ portfolio_config' = portfolio_config
        /\ (pc # "idle" /\ pc' # "idle") => args' = args ]_vars

\* A simulation of the largest size has returned, with the arrays it was
\* passed still as the caller built them.
C17_Witness ==
    /\ pc = "mc_returned"
    /\ portfolio_config.num_simulations = MaxSims
    /\ portfolio_config.time_horizon_days = MaxHorizon
    /\ rng # rng_at_call
    /\ result.sorted_sim_returns # sim_horizon_portfolio_returns
    /\ daily_returns[1] > 0
    /\ daily_returns =
          convert_annual_to_daily(portfolio_config.expected_annual_returns,
                                  portfolio_config.trading_days_per_year, FALSE)
    /\ daily_covariance_matrix[1][1] > 0

SingleAssetZeroMean ==
    /\ portfolio_config.weights = <<WeightScale>>
    /\ portfolio_config.expected_annual_returns = <<0>>

\* horizon_mean + horizon_volatility * z_alpha, as a numerator over ParamDen:
\* horizon_mean = (weights . daily_returns) * time_horizon_days,
\* horizon_volatility = sqrt(w^T Sigma_daily w) * sqrt(time_horizon_days).
VarReturnFormula ==
    LET T     == portfolio_config.time_horizon_days
        alpha == PctScale - portfolio_config.confidence_level
        sigma == ISqrt(Max2(0, RawDailyVariance))
    IN  HorizonMean + sigma * ISqrt(T * ZScale * ZScale) * NormPpf(alpha)

\* daily_vol * sqrt(horizon) * z_alpha for the single asset, over ParamDen.
SingleAssetVarReturn ==
    LET T     == portfolio_config.time_horizon_days
        alpha == PctScale - portfolio_config.confidence_level
    IN  WeightScale * daily_vols[1] * ISqrt(T * ZScale * ZScale) * NormPpf(alpha)

\* C18 as claimed: var_return follows the formula, and for a single asset
\* with weight 1 and zero expected return var_return = daily_vol *
\* sqrt(horizon) * z_alpha and var_value = -var_return * portfolio_value.
C18_VarFormulaAsClaimed ==
    pc = "param_returned" =>
        /\ result.var_return = VarReturnFormula
        /\ SingleAssetZeroMean =>
              /\ result.var_return = SingleAssetVarReturn
              /\ result.var_value =
                    (-result.var_return) * portfolio_config.portfolio_value

\* C18 (amended): var_return follows the formula; for a single asset with
\* weight 1 and zero expected return var_return = daily_vol * sqrt(horizon) *
\* z_alpha and var_value = max(0, -var_return * portfolio_value), which is
\* -var_return * portfolio_value when the confidence level is at least one
\* half (z_alpha <= 0) and 0 when it is below (z_alpha > 0).
C18_VarFormulaFlooredValue ==
    pc = "param_returned" =>
        /\ result.var_return = VarReturnFormula
        /\ SingleAssetZeroMean =>
              LET pv == portfolio_config.portfolio_value
                  z  == NormPpf(PctScale - portfolio_config.confidence_level)
              IN  /\ result.var_return = SingleAssetVarReturn
                  /\ result.var_value = Max2(0, (-result.var_return) * pv)
                  /\ z <= 0 => result.var_value = (-result.var_return) * pv
                  /\ z > 0 => result.var_value = 0

\* The single asset at a confidence level below one half, over the longest
\* horizon: var_return is a gain and var_value is 0, not its negative.
C18_Witness ==
    /\ pc = "param_returned"
    /\ SingleAssetZeroMean
    /\ portfolio_config.time_horizon_days = MaxHorizon
    /\ result.var_return = SingleAssetVarReturn
    /\ result.var_return > 0
    /\ result.var_value = 0

\* The variates of day d of path j (both counted from 0): the call draws
\* them in order from the random source as it was at the call's entry.
PathDraws(j, d) ==
    LET T == portfolio_config.time_horizon_days
        k == Len(portfolio_config.weights)
    IN  NormalDraws(RngAfter(rng_at_call, (j * T + d) * k), k)

\* weights . (daily_returns + L z) of day d of path j, over DayDen.
DailyReturnOf(j, d) ==
    LET Lz == MatVec(L_matrix, PathDraws(j, d))
    IN  Dot(portfolio_config.weights,
            [a \in 1..Len(daily_returns) |-> daily_returns[a] + Lz[a]])

RECURSIVE ProductOfFactors(_, _)
\* The product of the first d daily factors 1 + r of path j, over DayDen^d.
ProductOfFactors(j, d) ==
    IF d = 0 THEN 1
    ELSE ProductOfFactors(j, d - 1) * (DayDen + DailyReturnOf(j, d - 1))

RECURSIVE SumOfDailyReturns(_, _)
\* The sum of the first d daily returns of path j, over DayDen.
SumOfDailyReturns(j, d) ==
    IF d = 0 THEN 0 ELSE SumOfDailyReturns(j, d - 1) + DailyReturnOf(j, d - 1)

\* C19: every path starts from portfolio_value whatever the earlier paths
\* did and multiplies its value by 1 + weights . (daily_returns + L z_d) once
\* a day; the return it records is the product of its daily factors minus 1.
C19_PathsCompound ==
    LET pv == portfolio_config.portfolio_value
        T  == portfolio_config.time_horizon_days
    IN  /\ pc = "day_loop" =>
              current_portfolio_value_sim = pv * ProductOfFactors(i, day)
        /\ pc \in {"path_start", "day_loop", "mc_returned"} =>
              \A j \in 0..(i - 1) :
                  sim_horizon_portfolio_returns[j + 1]
                      = ProductOfFactors(j, T) - Pow(DayDen, T)

\* Several paths over several days have been recorded, and the return of one
\* of them is not the sum of its daily returns.
C19_Witness ==
    /\ pc = "mc_returned"
    /\ portfolio_config.num_simulations = MaxSims
    /\ portfolio_config.time_horizon_days = MaxHorizon
    /\ \E j \in 0..(MaxSims - 1) :
          /\ sim_horizon_portfolio_returns[j + 1]
                = ProductOfFactors(j, MaxHorizon) - Pow(DayDen, MaxHorizon)
          /\ sim_horizon_portfolio_returns[j + 1]
                # SumOfDailyReturns(j, MaxHorizon) * Pow(DayDen, MaxHorizon - 1)

\* C20: the aggregation starts only after all num_simulations paths have
\* recorded their return: while paths are simulated there is no VaR index and
\* no result, and a result is the aggregate of an array in which every
\* position holds the return of its path.
C20_AggregationAfterAllPaths ==
    LET n == portfolio_config.num_simulations
        T == portfolio_config.time_horizon_days
    IN  /\ pc \in {"path_start", "day_loop"} =>
              /\ result = None
              /\ var_index = 0
              /\ i <= n
        /\ pc = "mc_returned" =>
              /\ i = n
              /\ day = T
              /\ \A j \in 0..(n - 1) :
                    sim_horizon_portfolio_returns[j + 1]
                        = ProductOfFactors(j, T) - Pow(DayDen, T)
              /\ result.sorted_sim_returns = NpSort(sim_horizon_portfolio_returns)

\* The path recorded last is the worst one, a loss, and it is the VaR return:
\* the result depends on the last path.
C20_Witness ==
    /\ pc = "mc_returned"
    /\ portfolio_config.num_simulations = MaxSims
    /\ i = MaxSims
    /\ var_index = 0
    /\ sim_horizon_portfolio_returns[MaxSims] < 0
    /\ \A j \in 1..(MaxSims - 1) :
          sim_horizon_portfolio_returns[j] > sim_horizon_portfolio_returns[MaxSims]
    /\ result.var_return = sim_horizon_portfolio_returns[MaxSims]

\* C21: the result of the Monte Carlo call does not depend on its daily_vols
\* argument: two calls started from the same state of the random source
\* return identical outputs (or both raise), whatever daily_vols each got.
C21_DailyVolsIgnored ==
    ( /\ pc \in {"mc_returned", "mc_raised"}
      /\ last_mc.kind = "call"
      /\ last_mc.rng0 = rng_at_call ) =>
        last_mc.result = result

\* Two simulations from the same state of the random source, one with the
\* converted volatilities and one with a dummy, returned the same tuple.
C21_Witness ==
    /\ pc = "mc_returned"
    /\ portfolio_config.num_simulations = MaxSims
    /\ last_mc.kind = "call"
    /\ last_mc.rng0 = rng_at_call
    /\ last_mc.daily_vols # daily_vols
    /\ result.kind = "tuple"
    /\ result.sorted_sim_returns[1] < result.sorted_sim_returns[MaxSims]
    /\ last_mc.result = result

\* What a run shows for each step, given which step fails.
ExpectedParametricOutput ==
    IF run.weights_type = "list" THEN "error_parametric" ELSE "display_parametric"

ExpectedMonteCarloOutput ==
    LET cfg == portfolio_config
        cov == DailyCovariance(
                   convert_annual_to_daily(cfg.annual_volatilities,
                                           cfg.trading_days_per_year, TRUE),
                   cfg.correlation_matrix)
    IN  IF LeadingMinorsPositive(cov) THEN "display_monte_carlo"
        ELSE "error_monte_carlo"

\* The parametric step comes first and the Monte Carlo step follows it,
\* failed or not; a step that raised is reported and shows no results.
RunOrderedAndIsolated ==
    /\ run.pc \in {"prep", "parametric", "monte_carlo", "finishing", "finished"}
    /\ run.pc \in {"prep", "parametric"} =>
          /\ run.output = <<>>
          /\ ~InMonteCarlo
    /\ InMonteCarlo => run.pc \in {"monte_carlo", "finishing"}
    /\ run.pc = "monte_carlo" => run.output = <<ExpectedParametricOutput>>
    /\ run.pc = "finishing" =>
          run.output = <<ExpectedParametricOutput, ExpectedMonteCarloOutput>>
    /\ run.pc = "finished" =>
          run.output = <<ExpectedParametricOutput, ExpectedMonteCarloOutput,
                         "finished">>

\* C22: run_risk_calculations runs the parametric calculation before the
\* Monte Carlo calculation; an exception of either is caught and reported
\* with no results shown for that method, the Monte Carlo calculation runs
\* after a parametric failure too, and every run reaches its final step.
C22_RunIsolatesFailures ==
    /\ []RunOrderedAndIsolated
    /\ <>(run.pc = "finished")

\* A run in which the parametric calculation raised, the Monte Carlo
\* calculation returned all the same, and the final step was reached.
C22_Witness ==
    /\ run.pc = "finished"
    /\ run.output = <<"error_parametric", "display_monte_carlo", "finished">>

\* C23: a Monte Carlo call that fails with the invalid-covariance error has
\* drawn no variate: the random source is in the state it had at the call's
\* entry, and no day-step was taken.
C23_FailureDrawsNothing ==
    pc = "mc_raised" =>
        /\ result = [kind |-> "ValueError"]
        /\ rng = rng_at_call
        /\ day_steps = 0

\* A call on a correlation of -2 raised, the random source (not in its
\* initial state 0) being where it was at the entry.
C23_Witness ==
    /\ pc = "mc_raised"
    /\ portfolio_config.correlation_matrix = CorrelationMatrix(-2 * RhoScale)
    /\ rng_at_call # 0
    /\ rng = rng_at_call
    /\ Variate(rng) # Variate(NextRng(rng))

\* The day-steps taken and the variates drawn so far by a simulation that is
\* in path i (day-steps before `day` of it done).
DayStepsCounted ==
    LET n == portfolio_config.num_simulations
        T == portfolio_config.time_horizon_days
        k == Len(portfolio_config.weights)
    IN  /\ pc = "path_start" => day_steps = i * T
        /\ pc = "day_loop" => day_steps = i * T + day
        /\ pc = "mc_returned" =>
              /\ day_steps = n * T
              /\ \A j \in 0..(n - 1) :
                    sim_horizon_portfolio_returns[j + 1]
                        = ProductOfFactors(j, T) - Pow(DayDen, T)
        /\ pc \in {"path_start", "day_loop", "mc_returned"} =>
              rng = Advanced(rng_at_call, day_steps * k)

\* A day-step draws len(weights) variates, those of day `day` of path i, and
\* only a day-step draws.
DayStepDraws ==
    LET k == Len(portfolio_config.weights)
    IN  IF day_steps' = day_steps + 1
        THEN /\ pc = "day_loop" /\ pc' = "day_loop"
             /\ i' = i /\ day' = day + 1
             /\ NormalDraws(rng, k) = PathDraws(i, day)
             /\ rng' = Advanced(rng, k)
        ELSE rng' = rng

\* C24: a Monte Carlo call on a factorizable covariance matrix terminates:
\* it takes num_simulations * time_horizon_days day-steps, each drawing
\* len(weights) variates from the random source, path after path and day
\* after day within a path, and then returns.
C24_SimulationTerminates ==
    /\ []DayStepsCounted
    /\ [][DayStepDraws]_vars
    /\ (pc \in {"path_start", "day_loop"}) ~> (pc = "mc_returned")

\* A simulation of MaxSims paths over MaxHorizon days has returned after
\* MaxSims * MaxHorizon day-steps, the random source that many draws on.
C24_Witness ==
    /\ pc = "mc_returned"
    /\ run.pc = "monte_carlo"
    /\ portfolio_config.num_simulations = MaxSims
    /\ portfolio_config.time_horizon_days = MaxHorizon
    /\ day_steps = MaxSims * MaxHorizon
    /\ rng = Advanced(rng_at_call,
                      MaxSims * MaxHorizon * Len(portfolio_config.weights))
    /\ rng # rng_at_call

\* How many of the simulated returns are below x, and how many at most x.
ReturnsBelow(x) ==
    Cardinality({j \in 1..Len(sim_horizon_portfolio_returns) :
                    sim_horizon_portfolio_returns[j] < x})

ReturnsAtMost(x) ==
    Cardinality({j \in 1..Len(sim_horizon_portfolio_returns) :
                    sim_horizon_portfolio_returns[j] <= x})

\* floor(alpha * num_simulations), alpha being 1 - confidence_level.
AlphaFloor ==
    Floor((PctScale - portfolio_config.confidence_level)
              * portfolio_config.num_simulations, PctScale)

\* C25: for a confidence level in (0, 1), at most floor(alpha * n) of the
\* simulated returns are strictly smaller than var_return and at least
\* min(floor(alpha * n) + 1, n) of them are at most var_return.
C25_VarReturnIsQuantile ==
    (pc = "mc_returned" /\ ValidConfidence) =>
        /\ ReturnsBelow(result.var_return) <= AlphaFloor
        /\ ReturnsAtMost(result.var_return)
              >= Min2(AlphaFloor + 1, portfolio_config.num_simulations)

\* Both bounds are met with equality away from the ends of the array: of
\* MaxSims distinct returns one is below var_return and two are at most it.
C25_Witness ==
    /\ pc = "mc_returned"
    /\ ValidConfidence
    /\ portfolio_config.num_simulations = MaxSims
    /\ AlphaFloor = 1
    /\ ReturnsBelow(result.var_return) = 1
    /\ ReturnsAtMost(result.var_return) = 2

=============================================================================
